---- MODULE Spec2Model ----
(***************************************************************************)
(* Derived Metrics Engine of the fantasy league app: the four batch        *)
(* computations of src/app/lib (lineup efficiency, expected wins, FAAB and *)
(* draft ROI, playoff odds) over the tables of the store.                  *)
(*                                                                         *)
(* Numbers.  Points and scores are Python floats in the source; the model  *)
(* draws them from small sets of integers, on which sums and comparisons   *)
(* are exact.  A quotient a/b is kept as the exact pair <<a, b>> (b > 0).  *)
(* Win probabilities are integers in units of 1/PScale; the normal CDF is  *)
(* read off a symmetric grid (PhiPos), with _phi(0) = 0.5 exact.           *)
(* The ILP solver is taken at its contract: an exact optimum with integral *)
(* variable values.                                                        *)
(***************************************************************************)
EXTENDS Integers, Sequences, FiniteSets, Bags, TLC

VARIABLES
    managers,          \* table managers: sequence of manager_id, in row order
    players,           \* table players: rows [player_id, eligible_positions]
    player_stats,      \* table player_stats: rows [week, player_id, total_points]
    rosters,           \* table rosters: rows [week, manager_id, player_id, slot, started]
    max_week,          \* the max_week argument of the run
    lineup_efficiency, \* derived table, key (week, manager_id)
    le_pc,             \* compute_lineup_efficiency: "init", "loop" or "done"
    le_weeks,          \* its list `weeks`
    le_wi,             \* position of the outer loop in le_weeks
    le_mi,             \* position of the inner loop in managers
    matchups,          \* table matchups in week order: rows [week, team_a, team_b, score_a, score_b]
    expected_wins,     \* derived table, key (week, manager_id)
    xw_pc,             \* compute_expected_wins: "init", "loop" or "done"
    xw_mts,            \* its list `mts`
    xw_totals,         \* its dict `totals`
    xw_cum,            \* its dict `cum_xw`
    xw_i,              \* position of the second loop in xw_mts
    transactions,      \* table transactions, in row order: rows [tx_id, ts, type, manager_id, player_id, faab_spent]
    faab_roi,          \* derived table, key (tx_id, player_id)
    faab_pc,           \* compute_faab_roi: "init", "loop" or "done"
    faab_adds,         \* its list `adds`
    faab_i,            \* position of its loop in faab_adds
    draft_picks,       \* table draft_picks, in row order: rows [manager_id, player_id, cost]
    draft_roi,         \* derived table, key (manager_id, player_id)
    draft_pc,          \* compute_draft_roi: "init", "loop" or "done"
    draft_i,           \* position of its loop in draft_picks
    schedule,          \* table schedule in week order: rows [week, team_a, team_b]
    n_sims,            \* the n_sims argument of simulate_playoff_odds
    playoff_teams,     \* its playoff_teams argument
    po_pc,             \* simulate_playoff_odds: "init", "sim", "done" or "raised"
    po_k,              \* trials completed
    po_wins,           \* its dict `wins`: the current standings, in halves of a win
    po_pf,             \* its dict `pf`
    playoffs,          \* its counter `playoffs`
    byes,              \* its counter `byes`
    po_result,         \* what it returned: <<>> for None, <<odds>> for the dict
    po_log,            \* (history) the trials so far, as a bag of [top, bye, draws, W, PF]
    earlier            \* (history) the calls that ended before the current ones:
                       \* [fn, how, table], the derived table as the call left it

inputs == <<managers, players, player_stats, rosters, max_week, matchups,
            transactions, draft_picks, schedule, n_sims, playoff_teams>>
le_vars == <<lineup_efficiency, le_pc, le_weeks, le_wi, le_mi>>
xw_vars == <<expected_wins, xw_pc, xw_mts, xw_totals, xw_cum, xw_i>>
faab_vars == <<faab_roi, faab_pc, faab_adds, faab_i>>
draft_vars == <<draft_roi, draft_pc, draft_i>>
po_vars == <<po_pc, po_k, po_wins, po_pf, playoffs, byes, po_result, po_log>>
vars == <<inputs, le_vars, xw_vars, faab_vars, draft_vars, po_vars, earlier>>

----
\* Bounds of the model.
NPlayers == 2      \* players of the league
MaxWeek == 4       \* weeks 1..MaxWeek carry data

Weeks == 1..MaxWeek
ManagerIds == {"m1", "m2"}
TeamIds == {"m1", "m2", "m3"}
PlayerIds == 1..NPlayers

----
\* Helpers: sums, maxima, sorting, exact quotients.
\* sum of f[x] over x in S
RECURSIVE SumSet(_, _)
SumSet(S, f) ==
    IF S = {} THEN 0
    ELSE LET x == CHOOSE y \in S : TRUE IN f[x] + SumSet(S \ {x}, f)

MaxOf(S) == CHOOSE x \in S : \A y \in S : y <= x
MinOf(S) == CHOOSE x \in S : \A y \in S : x <= y

RECURSIVE SortedSeq(_)
SortedSeq(S) ==
    IF S = {} THEN <<>>
    ELSE LET m == MinOf(S) IN <<m>> \o SortedSeq(S \ {m})

\* a/b as an exact pair, b > 0
Quot(a, b) == <<a, b>>
RatLe(q, r) == q[1] * r[2] <= r[1] * q[2]
RatZero == <<0, 1>>
RatOne == <<1, 1>>

\* (mutant) the table is rewritten with the row alone
UpsertTruncates(table, row, key) == {row}

\* upsert(rows, on_conflict = key): the row replaces the one with its key
Upsert(table, row, key) == {r \in table : \E f \in key : r[f] # row[f]} \cup {row}

----
\* compute_lineup_efficiency

STARTING_SLOTS == <<"QB", "RB", "RB", "WR", "WR", "TE", "W/R/T", "Q/W/R/T", "DEF", "K">>
SlotIdx == 1..Len(STARTING_SLOTS)

\* pts = {player_id: total_points} of the week; pts.get(pid, 0.0)
PtsOf(w, pid) ==
    LET ps == {p \in player_stats : p.week = w /\ p.player_id = pid}
    IN IF ps = {} THEN 0 ELSE (CHOOSE p \in ps : TRUE).total_points

\* rosters .eq(week).eq(manager_id)
RosterOf(w, mid) == {r \in rosters : r.week = w /\ r.manager_id = mid}

\* elig.get(pid, set())
EligOf(pid) ==
    LET rows == {p \in players : p.player_id = pid}
    IN IF rows = {} THEN {} ELSE (CHOOSE p \in rows : TRUE).eligible_positions

\* actual = sum of pts of the rows flagged started
ActualPts(w, roster) ==
    LET started == {r \in roster : r.started}
    IN SumSet(started, [r \in started |-> PtsOf(w, r.player_id)])

\* the binary variables X[(pid, i)], one per eligible (player, slot instance)
LpVars(pids) ==
    {<<pid, i>> \in pids \X SlotIdx : STARTING_SLOTS[i] \in EligOf(pid)}

\* (mutant) the slot coverage constraints are left out of the problem
SlotConstraintDropped(S) == TRUE

\* slot coverage: at most one player per slot instance
SlotConstraint(S) == \A i \in SlotIdx : Cardinality({v \in S : v[2] = i}) <= 1
\* player at most once
PlayerConstraint(S, pids) == \A pid \in pids : Cardinality({v \in S : v[1] = pid}) <= 1

LpFeasible(pids) ==
    {S \in SUBSET LpVars(pids) : SlotConstraint(S) /\ PlayerConstraint(S, pids)}

LpValue(w, S) == SumSet(S, [v \in S |-> PtsOf(w, v[1])])

\* prob.solve(); optimal = sum of pts over the variables at 1.  Every optimal
\* solution has the same sum, the maximum of the objective.
OptimalPts(w, pids) == MaxOf({LpValue(w, S) : S \in LpFeasible(pids)})

Regret(optimal, actual) == IF optimal - actual > 0 THEN optimal - actual ELSE 0
Efficiency(actual, optimal) == IF optimal > 0 THEN Quot(actual, optimal) ELSE RatOne

LERecord(w, mid) ==
    LET roster == RosterOf(w, mid)
        pids == {r.player_id : r \in roster}
        actual == ActualPts(w, roster)
        optimal == OptimalPts(w, pids)
    IN [week |-> w, manager_id |-> mid, actual_pts |-> actual, optimal_pts |-> optimal,
        regret |-> Regret(optimal, actual), efficiency |-> Efficiency(actual, optimal)]

LEKey == {"week", "manager_id"}

\* (mutant) the weeks are read from a derived table
LEWeeksFromDerived ==
    SelectSeq(SortedSeq({r.week : r \in expected_wins}), LAMBDA w : w <= max_week)

\* weeks present in rosters, sorted, filtered by max_week
LEWeeks == SelectSeq(SortedSeq({r.week : r \in rosters}), LAMBDA w : w <= max_week)

LE_Begin ==
    /\ le_pc = "init"
    /\ le_weeks' = LEWeeks
    /\ le_wi' = 1
    /\ le_mi' = 1
    /\ le_pc' = IF LEWeeks = <<>> \/ managers = <<>> THEN "done" ELSE "loop"
    /\ UNCHANGED <<inputs, earlier, lineup_efficiency, xw_vars, faab_vars, draft_vars, po_vars>>

\* the loops move on to the next manager, then to the next week
LE_Advance ==
    IF le_mi < Len(managers)
    THEN /\ le_mi' = le_mi + 1
         /\ UNCHANGED <<le_wi, le_pc>>
    ELSE /\ le_mi' = 1
         /\ le_wi' = le_wi + 1
         /\ le_pc' = IF le_wi < Len(le_weeks) THEN "loop" ELSE "done"

\* (mutant) the `continue` is a `return`
LE_SkipReturns ==
    /\ le_pc = "loop"
    /\ RosterOf(le_weeks[le_wi], managers[le_mi]) = {}
    /\ le_pc' = "done"
    /\ UNCHANGED <<inputs, earlier, lineup_efficiency, le_weeks, le_wi, le_mi,
                   xw_vars, faab_vars, draft_vars, po_vars>>

\* `if not roster: continue`
LE_Skip ==
    /\ le_pc = "loop"
    /\ RosterOf(le_weeks[le_wi], managers[le_mi]) = {}
    /\ LE_Advance
    /\ UNCHANGED <<inputs, earlier, lineup_efficiency, le_weeks, xw_vars, faab_vars, draft_vars, po_vars>>

LE_Write ==
    /\ le_pc = "loop"
    /\ RosterOf(le_weeks[le_wi], managers[le_mi]) # {}
    /\ lineup_efficiency' =
          Upsert(lineup_efficiency, LERecord(le_weeks[le_wi], managers[le_mi]), LEKey)
    /\ LE_Advance
    /\ UNCHANGED <<inputs, earlier, le_weeks, xw_vars, faab_vars, draft_vars, po_vars>>

----
\* compute_expected_wins

\* Probabilities are kept in units of 1/PScale.
PScale == 3 * 1000
Half == PScale \div 2

\* a nullable column: <<>> is None, <<v>> is v;  float(x or 0)
FloatOr0(x) == IF x = <<>> THEN 0 ELSE x[1]

\* (mutant) the rows are not filtered
XWFilterNone(mts) == mts

\* mts filtered to week <= max_week
XWFilter(mts) == SelectSeq(mts, LAMBDA row : row.week <= max_week)

\* what one row appends to totals[t].  The code appends the score alone; the
\* model keeps the week of the row with it.
RowEntries(row, t) ==
    (IF row.team_a = t THEN <<[week |-> row.week, score |-> FloatOr0(row.score_a)]>> ELSE <<>>)
    \o (IF row.team_b = t THEN <<[week |-> row.week, score |-> FloatOr0(row.score_b)]>> ELSE <<>>)

\* first loop: totals[t] is the list of all scores of t in mts
RECURSIVE TotalsOf(_, _)
TotalsOf(mts, t) ==
    IF mts = <<>> THEN <<>>
    ELSE TotalsOf(SubSeq(mts, 1, Len(mts) - 1), t) \o RowEntries(mts[Len(mts)], t)

\* hist = totals[t][:-1] if len(totals[t]) > 1 else totals[t]
Hist(tot) == IF Len(tot) > 1 THEN SubSeq(tot, 1, Len(tot) - 1) ELSE tot

RECURSIVE SumScores(_)
SumScores(h) == IF h = <<>> THEN 0 ELSE h[1].score + SumScores(Tail(h))
RECURSIVE SumSquares(_)
SumSquares(h) == IF h = <<>> THEN 0 ELSE h[1].score * h[1].score + SumSquares(Tail(h))

\* (mu, sd) of a history, as exact integers: n, the sum S (mu = S/n) and
\* vn = n * sum of squares - S^2 (sd^2 = vn/n^2);  (s, 0) for an empty history
Moments(h, s) ==
    IF h = <<>> THEN [n |-> 1, S |-> s, vn |-> 0]
    ELSE [n |-> Len(h), S |-> SumScores(h),
          vn |-> Len(h) * SumSquares(h) - SumScores(h) * SumScores(h)]

\* mu_a - mu_b = MeanDiff / (n_a * n_b)
MeanDiff(ma, mb) == ma.S * mb.n - mb.S * ma.n
\* sd_a^2 + sd_b^2 = VarSum / (n_a * n_b)^2, so z^2 = MeanDiff^2 / VarSum
VarSum(ma, mb) == ma.vn * mb.n * mb.n + mb.vn * ma.n * ma.n

\* _phi(z) for z > 0 with z^2 = num/den, read off a grid: _phi at 0.25, 0.75,
\* 1.5, 2.5 for z below 0.5, 1, 2, 3, and 0.999 beyond
PhiPos(num, den) ==
    IF 4 * num < den THEN 1797
    ELSE IF num < den THEN 2319
    ELSE IF num < 4 * den THEN 2799
    ELSE IF num < 9 * den THEN 2982
    ELSE 2997

\* _phi((mu_a - mu_b)/denom) if denom > 0, else _phi of 0.0, 10 or -10;
\* erf is odd, _phi(0.0) is 0.5 and _phi(10), _phi(-10) are 1.0 and 0.0 as floats
Historical(ma, mb) ==
    LET d == MeanDiff(ma, mb)
        v == VarSum(ma, mb)
    IN IF d = 0 THEN Half
       ELSE IF v > 0 THEN (IF d > 0 THEN PhiPos(d * d, v) ELSE PScale - PhiPos(d * d, v))
       ELSE IF d > 0 THEN PScale ELSE 0

\* weeks 2-3: confidence_weight = min(min_games / 3, 1.0), pa the weighted average
Blend(min_games, h) ==
    LET g == IF min_games < 3 THEN min_games ELSE 3
    IN ((3 - g) * Half + g * h) \div 3

\* (mutant) the week-1 branch is missing
WinProbNoWeek1(w, hist_a, hist_b, sa, sb) ==
    LET h == Historical(Moments(hist_a, sa), Moments(hist_b, sb))
        min_games == MinOf({Len(hist_a), Len(hist_b)})
    IN IF w <= 3 THEN (IF min_games < 1 THEN Half ELSE Blend(min_games, h)) ELSE h

\* pa of a row of week w
WinProb(w, hist_a, hist_b, sa, sb) ==
    LET h == Historical(Moments(hist_a, sa), Moments(hist_b, sb))
        min_games == MinOf({Len(hist_a), Len(hist_b)})
    IN IF w = 1 THEN Half
       ELSE IF w <= 3 THEN (IF min_games < 1 THEN Half ELSE Blend(min_games, h))
       ELSE h

\* (mutant) both sides are given pa
OtherSideSame(pa) == pa

\* the pair written for team_b: 1 - pa
OtherSide(pa) == PScale - pa

\* (mutant) one running total is kept for all managers
AccumulateShared(cum, mid, p) == [t \in TeamIds |-> cum[t] + p]

\* (mutant) the running total is overwritten, not added to
AccumulateLast(cum, mid, p) == [cum EXCEPT ![mid] = p]

\* cum_xw[mid] = cum_xw.get(mid, 0.0) + p
Accumulate(cum, mid, p) == [cum EXCEPT ![mid] = @ + p]

XWKey == {"week", "manager_id"}

\* (mutant) the running totals of the previous call are carried into the next
CumKept == xw_cum

\* cum_xw = {}
CumInit == [t \in TeamIds |-> 0]

\* pa of the row at position i of xw_mts
RowProb(i) ==
    LET row == xw_mts[i]
    IN WinProb(row.week, Hist(xw_totals[row.team_a]), Hist(xw_totals[row.team_b]),
               FloatOr0(row.score_a), FloatOr0(row.score_b))

\* `if not mts: return`, the filter and the first loop
XW_Begin ==
    /\ xw_pc = "init"
    /\ xw_mts' = XWFilter(matchups)
    /\ xw_totals' = [t \in TeamIds |-> TotalsOf(XWFilter(matchups), t)]
    /\ xw_i' = 1
    /\ xw_cum' = CumInit
    /\ xw_pc' = IF XWFilter(matchups) = <<>> THEN "done" ELSE "loop"
    /\ UNCHANGED <<inputs, earlier, expected_wins, le_vars, faab_vars, draft_vars, po_vars>>

\* one iteration of the second loop: the two upserts of a row
XW_Row ==
    /\ xw_pc = "loop"
    /\ LET row == xw_mts[xw_i]
           pa == RowProb(xw_i)
           pb == OtherSide(pa)
           cum1 == Accumulate(xw_cum, row.team_a, pa)
           cum2 == Accumulate(cum1, row.team_b, pb)
           rec_a == [week |-> row.week, manager_id |-> row.team_a,
                     p_win |-> pa, cum_xw |-> cum1[row.team_a]]
           rec_b == [week |-> row.week, manager_id |-> row.team_b,
                     p_win |-> pb, cum_xw |-> cum2[row.team_b]]
       IN /\ expected_wins' = Upsert(Upsert(expected_wins, rec_a, XWKey), rec_b, XWKey)
          /\ xw_cum' = cum2
    /\ xw_i' = xw_i + 1
    /\ xw_pc' = IF xw_i < Len(xw_mts) THEN "loop" ELSE "done"
    /\ UNCHANGED <<inputs, earlier, xw_mts, xw_totals, le_vars, faab_vars, draft_vars, po_vars>>

XWIdle ==
    /\ expected_wins = {}
    /\ xw_pc = "init"
    /\ xw_mts = <<>>
    /\ xw_totals = [t \in TeamIds |-> <<>>]
    /\ xw_cum = [t \in TeamIds |-> 0]
    /\ xw_i = 1

----
\* compute_faab_roi and compute_draft_roi

START_SLOTS == {"QB", "RB", "WR", "TE", "W/R/T", "Q/W/R/T", "DST", "K"}
START_SLOTS_draft == {"QB", "RB", "WR", "TE", "W/R/T", "Q/W/R/T", "DST", "K"}

\* transactions .eq(type, add) .not_.is_(faab_spent, null)
FaabAdds == SelectSeq(transactions, LAMBDA tx : tx.type = "add" /\ tx.faab_spent # <<>>)

\* rosters ordered by week desc, limit 1: the last available week, <<>> for None
LastWeek == IF rosters = {} THEN <<>> ELSE <<MaxOf({r.week : r \in rosters})>>

\* (mutant) the filter on player_id is missing
RosterRowsOfManager(mid, pid) == {r \in rosters : r.manager_id = mid}

\* rosters .eq(manager_id) .eq(player_id)
RosterRows(mid, pid) == {r \in rosters : r.manager_id = mid /\ r.player_id = pid}

\* roster_rows[0]["week"] of the rows ordered by week
StartWeek(rows) == MinOf({r.week : r \in rows})

\* the sum of total_points of the player's stat lines of the given weeks
PtsOver(pid, weeks) ==
    LET ps == {p \in player_stats : p.player_id = pid /\ p.week \in weeks}
    IN SumSet(ps, [p \in ps |-> p.total_points])

\* (mutant) the division is not guarded
PerDollarUnguarded(pts, cost) == Quot(pts, cost)

\* (pts / cost) if cost > 0 else 0
PerDollar(pts, cost) == IF cost > 0 THEN Quot(pts, cost) ELSE RatZero

FaabRecord(tx) ==
    LET rows == RosterRows(tx.manager_id, tx.player_id)
        faab == tx.faab_spent[1]
        start_week == StartWeek(rows)
        all_weeks == {r.week : r \in {x \in rows : x.week >= start_week}}
        started_weeks ==
            {r.week : r \in {x \in rows : x.started /\ x.slot \in START_SLOTS
                                             /\ x.week >= start_week}}
        pts_all == PtsOver(tx.player_id, all_weeks)
        pts_starting == PtsOver(tx.player_id, started_weeks)
    IN [tx_id |-> tx.tx_id, manager_id |-> tx.manager_id, player_id |-> tx.player_id,
        start_week |-> start_week, end_week |-> LastWeek[1],
        pts_all |-> pts_all, pts_starting |-> pts_starting, faab_spent |-> faab,
        pts_per_dollar_all |-> PerDollar(pts_all, faab),
        pts_per_dollar_starting |-> PerDollar(pts_starting, faab)]

FaabKey == {"tx_id", "player_id"}

\* the queries for adds and the last week; `if last_w is None: return`
Faab_Begin ==
    /\ faab_pc = "init"
    /\ faab_adds' = FaabAdds
    /\ faab_i' = 1
    /\ faab_pc' = IF LastWeek = <<>> \/ FaabAdds = <<>> THEN "done" ELSE "loop"
    /\ UNCHANGED <<inputs, earlier, faab_roi, le_vars, xw_vars, draft_vars, po_vars>>

Faab_Advance ==
    /\ faab_i' = faab_i + 1
    /\ faab_pc' = IF faab_i < Len(faab_adds) THEN "loop" ELSE "done"

\* `if not roster_rows: continue`
Faab_Skip ==
    /\ faab_pc = "loop"
    /\ RosterRows(faab_adds[faab_i].manager_id, faab_adds[faab_i].player_id) = {}
    /\ Faab_Advance
    /\ UNCHANGED <<inputs, earlier, faab_roi, faab_adds, le_vars, xw_vars, draft_vars, po_vars>>

Faab_Write ==
    /\ faab_pc = "loop"
    /\ RosterRows(faab_adds[faab_i].manager_id, faab_adds[faab_i].player_id) # {}
    /\ faab_roi' = Upsert(faab_roi, FaabRecord(faab_adds[faab_i]), FaabKey)
    /\ Faab_Advance
    /\ UNCHANGED <<inputs, earlier, faab_adds, le_vars, xw_vars, draft_vars, po_vars>>

FaabIdle ==
    /\ faab_roi = {}
    /\ faab_pc = "init"
    /\ faab_adds = <<>>
    /\ faab_i = 1

DraftRecord(pick) ==
    LET rows == RosterRows(pick.manager_id, pick.player_id)
        all_weeks == {r.week : r \in rows}
        started_weeks == {r.week : r \in {x \in rows : x.started /\ x.slot \in START_SLOTS_draft}}
        pts_all == PtsOver(pick.player_id, all_weeks)
        pts_starting == PtsOver(pick.player_id, started_weeks)
    IN [manager_id |-> pick.manager_id, player_id |-> pick.player_id,
        draft_cost |-> pick.cost,
        pts_all |-> pts_all, pts_starting |-> pts_starting,
        pts_per_dollar_all |-> PerDollar(pts_all, pick.cost),
        pts_per_dollar_starting |-> PerDollar(pts_starting, pick.cost)]

DraftKey == {"manager_id", "player_id"}

\* `if not draft_picks: return`, `if last_w is None: return`
Draft_Begin ==
    /\ draft_pc = "init"
    /\ draft_i' = 1
    /\ draft_pc' = IF draft_picks = <<>> \/ LastWeek = <<>> THEN "done" ELSE "loop"
    /\ UNCHANGED <<inputs, earlier, draft_roi, le_vars, xw_vars, faab_vars, po_vars>>

Draft_Advance ==
    /\ draft_i' = draft_i + 1
    /\ draft_pc' = IF draft_i < Len(draft_picks) THEN "loop" ELSE "done"

\* `if not roster_rows: ... continue`
Draft_Skip ==
    /\ draft_pc = "loop"
    /\ RosterRows(draft_picks[draft_i].manager_id, draft_picks[draft_i].player_id) = {}
    /\ Draft_Advance
    /\ UNCHANGED <<inputs, earlier, draft_roi, le_vars, xw_vars, faab_vars, po_vars>>

Draft_Write ==
    /\ draft_pc = "loop"
    /\ RosterRows(draft_picks[draft_i].manager_id, draft_picks[draft_i].player_id) # {}
    /\ draft_roi' = Upsert(draft_roi, DraftRecord(draft_picks[draft_i]), DraftKey)
    /\ Draft_Advance
    /\ UNCHANGED <<inputs, earlier, le_vars, xw_vars, faab_vars, po_vars>>

DraftIdle ==
    /\ draft_roi = {}
    /\ draft_pc = "init"
    /\ draft_i = 1

----
\* simulate_playoff_odds

\* wins are counted in halves: a win is 2, a tie 1 for each side
MatchIdx == 1..Len(matchups)

\* totals[t]: the non-null scores of t; draws has a key for t iff there is one
DrawsOf(t) ==
    {matchups[i].score_a[1] : i \in {j \in MatchIdx : matchups[j].team_a = t /\ matchups[j].score_a # <<>>}}
    \cup {matchups[i].score_b[1] : i \in {j \in MatchIdx : matchups[j].team_b = t /\ matchups[j].score_b # <<>>}}
HasDraws(t) == DrawsOf(t) # {}

\* the halves of a win a result gives the side that scored x against y
WinHalves(x, y) == IF x > y THEN 2 ELSE IF y > x THEN 0 ELSE 1

\* current standings: wins and pf over all rows of matchups, float(score or 0)
Wins0(t) ==
    SumSet(MatchIdx, [i \in MatchIdx |->
        LET sa == FloatOr0(matchups[i].score_a)
            sb == FloatOr0(matchups[i].score_b)
        IN (IF matchups[i].team_a = t THEN WinHalves(sa, sb) ELSE 0)
           + (IF matchups[i].team_b = t THEN WinHalves(sb, sa) ELSE 0)])
PF0(t) ==
    SumSet(MatchIdx, [i \in MatchIdx |->
        (IF matchups[i].team_a = t THEN FloatOr0(matchups[i].score_a) ELSE 0)
        + (IF matchups[i].team_b = t THEN FloatOr0(matchups[i].score_b) ELSE 0)])

\* (mutant) the schedule is never found empty
NoScheduleIgnored == FALSE

\* `if not sched`
NoSchedule == schedule = <<>>

\* draws.get(t, draws[teams[0]]): the default is evaluated on every call, and
\* raises IndexError without teams and KeyError when teams[0] has no draws
DefaultRaises == IF managers = <<>> THEN TRUE ELSE ~HasDraws(managers[1])
\* a trial makes its first draw, if the schedule has a row, and the draw raises
TrialRaises == schedule # <<>> /\ DefaultRaises
DrawSet(t) == IF HasDraws(t) THEN DrawsOf(t) ELSE DrawsOf(managers[1])

\* the scores np.random.choice may give the two sides of each scheduled matchup
SchedIdx == 1..Len(schedule)
AllScores == UNION {DrawsOf(t) : t \in TeamIds}
TrialDraws ==
    {d \in [SchedIdx -> AllScores \X AllScores] :
        \A i \in SchedIdx : /\ d[i][1] \in DrawSet(schedule[i].team_a)
                            /\ d[i][2] \in DrawSet(schedule[i].team_b)}

\* W and PF at the end of a trial with draws d, from W = wins.copy() and
\* PF = pf.copy()
SimW(d, t) ==
    po_wins[t] + SumSet(SchedIdx, [i \in SchedIdx |->
        (IF schedule[i].team_a = t THEN WinHalves(d[i][1], d[i][2]) ELSE 0)
        + (IF schedule[i].team_b = t THEN WinHalves(d[i][2], d[i][1]) ELSE 0)])
SimPF(d, t) ==
    po_pf[t] + SumSet(SchedIdx, [i \in SchedIdx |->
        (IF schedule[i].team_a = t THEN d[i][1] ELSE 0)
        + (IF schedule[i].team_b = t THEN d[i][2] ELSE 0)])

\* (mutant) the ranking is by wins alone
KeyAboveByWins(d, u, t) == SimW(d, u) > SimW(d, t)

\* sorted(teams, key = (W, PF), reverse = True): the number of teams ahead of
\* the one at position i; the sort is stable, equal keys keep the table order
KeyAbove(d, u, t) ==
    \/ SimW(d, u) > SimW(d, t)
    \/ SimW(d, u) = SimW(d, t) /\ SimPF(d, u) > SimPF(d, t)
KeyEqual(d, u, t) == SimW(d, u) = SimW(d, t) /\ SimPF(d, u) = SimPF(d, t)
Ahead(d, i) ==
    Cardinality({j \in 1..Len(managers) :
        \/ KeyAbove(d, managers[j], managers[i])
        \/ KeyEqual(d, managers[j], managers[i]) /\ j < i})

\* (mutant) the slice takes one team too many
FirstOfOneMore(d, n) == {managers[i] : i \in {j \in 1..Len(managers) : Ahead(d, j) <= n}}

\* set(final[:n])
FirstOf(d, n) == {managers[i] : i \in {j \in 1..Len(managers) : Ahead(d, j) < n}}

\* (mutant) the byes go to the first three of the ranking
ByeSetOfThree(d) == FirstOf(d, 3)

\* final[:2]
ByeSet(d) == FirstOf(d, 2)

\* (mutant) W = wins: the trial works on the standings themselves
WinsAfterAliased(d) == [t \in TeamIds |-> SimW(d, t)]

\* `wins` after a trial: the trial worked on a copy
WinsAfter(d) == po_wins
PFAfter(d) == po_pf

Bump(counter, S) == [t \in TeamIds |-> IF t \in S THEN counter[t] + 1 ELSE counter[t]]

\* {t: {"playoff": playoffs[t]/n_sims, "bye": byes[t]/n_sims} for t in teams}
Odds ==
    [i \in 1..Len(managers) |->
        [manager_id |-> managers[i],
         playoff |-> Quot(playoffs[managers[i]], n_sims),
         bye |-> Quot(byes[managers[i]], n_sims)]]

\* `if not sched: return None`
Po_NoSchedule ==
    /\ po_pc = "init"
    /\ NoSchedule
    /\ po_pc' = "done"
    /\ po_result' = <<>>
    /\ UNCHANGED <<inputs, earlier, po_k, po_wins, po_pf, playoffs, byes, po_log, le_vars, xw_vars, faab_vars, draft_vars>>

\* the setup up to the first trial
Po_Start ==
    /\ po_pc = "init"
    /\ ~NoSchedule
    /\ po_wins' = [t \in TeamIds |-> Wins0(t)]
    /\ po_pf' = [t \in TeamIds |-> PF0(t)]
    /\ po_pc' = "sim"
    /\ UNCHANGED <<inputs, earlier, po_k, playoffs, byes, po_result, po_log, le_vars, xw_vars, faab_vars, draft_vars>>

\* the first draw of a trial raises
Po_Raise ==
    /\ po_pc = "sim"
    /\ po_k < n_sims
    /\ TrialRaises
    /\ po_pc' = "raised"
    /\ UNCHANGED <<inputs, earlier, po_k, po_wins, po_pf, playoffs, byes, po_result, po_log, le_vars, xw_vars, faab_vars, draft_vars>>

\* one trial
Po_Trial ==
    /\ po_pc = "sim"
    /\ po_k < n_sims
    /\ ~TrialRaises
    /\ \E d \in TrialDraws :
          /\ playoffs' = Bump(playoffs, FirstOf(d, playoff_teams))
          /\ byes' = Bump(byes, ByeSet(d))
          /\ po_wins' = WinsAfter(d)
          /\ po_pf' = PFAfter(d)
          /\ po_log' = po_log (+) SetToBag({[top |-> FirstOf(d, playoff_teams),
                                              bye |-> ByeSet(d),
                                              draws |-> d,
                                              W |-> [t \in TeamIds |-> SimW(d, t)],
                                              PF |-> [t \in TeamIds |-> SimPF(d, t)]]})
    /\ po_k' = po_k + 1
    /\ UNCHANGED <<inputs, earlier, po_pc, po_result, le_vars, xw_vars, faab_vars, draft_vars>>

Po_Return ==
    /\ po_pc = "sim"
    /\ po_k = n_sims
    /\ po_pc' = "done"
    /\ po_result' = <<Odds>>
    /\ UNCHANGED <<inputs, earlier, po_k, po_wins, po_pf, playoffs, byes, po_log, le_vars, xw_vars, faab_vars, draft_vars>>

PoIdle ==
    /\ po_pc = "init"
    /\ po_k = 0
    /\ po_wins = [t \in TeamIds |-> 0]
    /\ po_pf = [t \in TeamIds |-> 0]
    /\ playoffs = [t \in TeamIds |-> 0]
    /\ byes = [t \in TeamIds |-> 0]
    /\ po_result = <<>>
    /\ po_log = EmptyBag

\* no simulation is asked for
NoPlayoffRun ==
    /\ schedule = <<>>
    /\ n_sims = 1
    /\ playoff_teams = 6
    /\ PoIdle

----
\* write_rosters: the loader of the rosters table.  A row holds the slot the
\* player was placed in (selected_position) and the flag derived from it.
BENCH_SLOTS == {"BN", "IR"}

\* (mutant) only the bench is left out of the starts
StartedOfBenchOnly(slot) == slot # "BN"

\* "started": selected_position not in ("BN", "IR")
StartedOf(slot) == slot \notin BENCH_SLOTS

RosterRow(w, mid, pid, slot) ==
    [week |-> w, manager_id |-> mid, player_id |-> pid, slot |-> slot,
     started |-> StartedOf(slot)]

\* Inputs of the lineup runs: each player is of a kind (row of players, stat line
\* of the week, place on the roster); the rostered players share one (week, manager).
\* <<>> is a missing row, <<v>> a row holding v.
NoRow == <<>>
EligChoices == {NoRow, <<{"QB"}>>, <<{"QB", "Q/W/R/T"}>>, <<{"RB", "W/R/T"}>>}
PtsChoices == {NoRow, <<-2>>, <<10>>, <<14>>}
Kinds ==
    {[elig |-> NoRow, pts |-> NoRow, status |-> "absent"]}
    \cup [elig : EligChoices, pts : PtsChoices, status : {"bench", "started"}]

RECURSIVE SetToSeq(_)
SetToSeq(S) ==
    IF S = {} THEN <<>>
    ELSE LET x == CHOOSE y \in S : TRUE IN <<x>> \o SetToSeq(S \ {x})
KindSeq == SetToSeq(Kinds)

\* players are interchangeable: kinds are drawn in non-decreasing order
KindChoices ==
    {k \in [PlayerIds -> 1..Len(KindSeq)] : \A p \in PlayerIds : p > 1 => k[p - 1] <= k[p]}

LEPlayers(k) ==
    {[player_id |-> p, eligible_positions |-> KindSeq[k[p]].elig[1]] :
        p \in {q \in PlayerIds : KindSeq[k[q]].elig # NoRow}}
LEStats(k, w) ==
    {[week |-> w, player_id |-> p, total_points |-> KindSeq[k[p]].pts[1]] :
        p \in {q \in PlayerIds : KindSeq[k[q]].pts # NoRow}}
LERosters(k, w, mid) ==
    {RosterRow(w, mid, p, IF KindSeq[k[p]].status = "started" THEN "QB" ELSE "BN") :
        p \in {q \in PlayerIds : KindSeq[k[q]].status # "absent"}}

\* the state of a computation that has not been started
LEIdle ==
    /\ lineup_efficiency = {}
    /\ le_pc = "init"
    /\ le_weeks = <<>>
    /\ le_wi = 1
    /\ le_mi = 1

LEInit ==
    /\ managers = <<"m1", "m2">>
    /\ \E k \in KindChoices, w \in Weeks, mid \in ManagerIds :
          /\ players = LEPlayers(k)
          /\ player_stats = LEStats(k, w)
          /\ rosters = LERosters(k, w, mid)
    /\ max_week \in {MaxWeek - 1, MaxWeek}
    /\ matchups = <<>>
    /\ transactions = <<>>
    /\ draft_picks = <<>>
    /\ NoPlayoffRun
    /\ LEIdle
    /\ XWIdle
    /\ FaabIdle
    /\ DraftIdle
    /\ earlier = <<>>

LENext == LE_Begin \/ LE_Skip \/ LE_Write

SpecLineup == LEInit /\ [][LENext]_vars

\* Inputs of the expected-wins runs: each week has no matchup or one, between
\* m1 and m2 or m3, with scores 90 or 110 or a null score.
ScoreChoices ==
    {<<x, y>> : x \in {<<90>>, <<110>>}, y \in {<<90>>, <<110>>}} \cup {<<<<>>, <<110>>>>}
WeekChoices ==
    {<<>>}
    \cup {<<[team_a |-> "m1", team_b |-> "m2", score_a |-> sc[1], score_b |-> sc[2]]>> :
            sc \in ScoreChoices}
    \cup {<<[team_a |-> "m1", team_b |-> "m3", score_a |-> <<90>>, score_b |-> <<110>>]>>,
          <<[team_a |-> "m3", team_b |-> "m2", score_a |-> <<110>>, score_b |-> <<90>>]>>}

\* the matchups query result, ordered by week
RECURSIVE MatchupRows(_, _, _)
MatchupRows(c, w, last) ==
    IF w > last THEN <<>>
    ELSE (IF c[w] = <<>> THEN <<>>
          ELSE <<[week |-> w, team_a |-> c[w][1].team_a, team_b |-> c[w][1].team_b,
                  score_a |-> c[w][1].score_a, score_b |-> c[w][1].score_b]>>)
         \o MatchupRows(c, w + 1, last)

XWInit ==
    /\ managers = <<"m1", "m2", "m3">>
    /\ players = {}
    /\ player_stats = {}
    /\ rosters = {}
    /\ \E c \in [Weeks -> WeekChoices] : matchups = MatchupRows(c, 1, MaxWeek)
    /\ max_week \in {MaxWeek - 1, MaxWeek}
    /\ transactions = <<>>
    /\ draft_picks = <<>>
    /\ NoPlayoffRun
    /\ LEIdle
    /\ XWIdle
    /\ FaabIdle
    /\ DraftIdle
    /\ earlier = <<>>

XWNext == XW_Begin \/ XW_Row

SpecXW == XWInit /\ [][XWNext]_vars

\* Inputs of the ROI runs: player 1 is on the roster of m1 over a range of weeks,
\* started in none, the first or all of them; his stat lines hold one value and
\* may lack week 1; m2 never rosters him.
MaxTx == 2         \* rows of transactions, and of draft_picks

RangeChoices == {<<>>} \cup {rg \in Weeks \X Weeks : rg[1] <= rg[2]}
StartedChoices == {"none", "first", "all"}

ROIRosters(rg, st) ==
    IF rg = <<>> THEN {}
    ELSE {RosterRow(w, "m1", 1,
                    IF st = "all" \/ (st = "first" /\ w = rg[1]) THEN "QB" ELSE "BN") :
            w \in rg[1]..rg[2]}
ROIStats(v, from) ==
    {[week |-> w, player_id |-> 1, total_points |-> v] : w \in from..MaxWeek}

TxChoices ==
    {[type |-> "add", manager_id |-> "m1", faab_spent |-> <<0>>, ts |-> 1],
     [type |-> "add", manager_id |-> "m1", faab_spent |-> <<-1>>, ts |-> 1],
     [type |-> "add", manager_id |-> "m1", faab_spent |-> <<5>>, ts |-> 3],
     [type |-> "add", manager_id |-> "m1", faab_spent |-> <<>>, ts |-> 1],
     [type |-> "add", manager_id |-> "m2", faab_spent |-> <<5>>, ts |-> 1],
     [type |-> "drop", manager_id |-> "m1", faab_spent |-> <<>>, ts |-> 1]}
TxLists == UNION {[1..n -> TxChoices] : n \in 0..MaxTx}
TxRows(l) ==
    [i \in 1..Len(l) |->
        [tx_id |-> i, ts |-> l[i].ts, type |-> l[i].type, manager_id |-> l[i].manager_id,
         player_id |-> 1, faab_spent |-> l[i].faab_spent]]

PickChoices ==
    {[manager_id |-> "m1", player_id |-> 1, cost |-> 0],
     [manager_id |-> "m1", player_id |-> 1, cost |-> -1],
     [manager_id |-> "m1", player_id |-> 1, cost |-> 3],
     [manager_id |-> "m2", player_id |-> 1, cost |-> 3]}
PickLists == UNION {[1..n -> PickChoices] : n \in 0..MaxTx}

ROIInit ==
    /\ managers = <<"m1", "m2">>
    /\ players = {}
    /\ matchups = <<>>
    /\ max_week = MaxWeek
    /\ \E rg \in RangeChoices, st \in StartedChoices : rosters = ROIRosters(rg, st)
    /\ \E v \in {-2, 7}, from \in {1, 2} : player_stats = ROIStats(v, from)
    /\ \/ \E l \in TxLists : transactions = TxRows(l) /\ draft_picks = <<>>
       \/ \E l \in PickLists : draft_picks = l /\ transactions = <<>>
    /\ NoPlayoffRun
    /\ LEIdle
    /\ XWIdle
    /\ FaabIdle
    /\ DraftIdle
    /\ earlier = <<>>

ROINext == Faab_Begin \/ Faab_Skip \/ Faab_Write \/ Draft_Begin \/ Draft_Skip \/ Draft_Write

SpecROI == ROIInit /\ [][ROINext]_vars

----
\* Claims on the ROI attributors.

\* the position the loop has just been through, if any
FaabLast == IF faab_pc = "init" \/ faab_i = 1 THEN {} ELSE {faab_i - 1}
DraftLast == IF draft_pc = "init" \/ draft_i = 1 THEN {} ELSE {draft_i - 1}

\* C7: every FAAB add with faab_spent <= 0 and every draft pick with cost <= 0
\* that has a roster row gets its record written, and both ratios of the record
\* are 0 whatever pts_all and pts_starting are.
C7_NonPositiveCostGivesZero ==
    /\ \A i \in FaabLast :
          LET tx == faab_adds[i]
          IN tx.faab_spent[1] <= 0 /\ RosterRows(tx.manager_id, tx.player_id) # {} =>
                \E r \in faab_roi :
                    /\ r.tx_id = tx.tx_id /\ r.player_id = tx.player_id
                    /\ r.faab_spent = tx.faab_spent[1]
                    /\ r.pts_per_dollar_all = RatZero
                    /\ r.pts_per_dollar_starting = RatZero
    /\ \A i \in DraftLast :
          LET pick == draft_picks[i]
          IN pick.cost <= 0 /\ RosterRows(pick.manager_id, pick.player_id) # {} =>
                \E r \in draft_roi :
                    /\ r.manager_id = pick.manager_id /\ r.player_id = pick.player_id
                    /\ r.draft_cost = pick.cost
                    /\ r.pts_per_dollar_all = RatZero
                    /\ r.pts_per_dollar_starting = RatZero

\* a free add with points on the roster has been through the loop
C7_Witness ==
    \E r \in faab_roi : r.faab_spent = 0 /\ r.pts_all > 0 /\ r.pts_starting > 0

\* Inputs of the playoff simulations: two weeks of history, a schedule of up to
\* two matchups, the managers table in several orders.
MaxSims == 2       \* n_sims is 1..MaxSims

HistoryWeeks == {1, 2}
ScheduleChoices ==
    {<<>>,
     <<[week |-> 3, team_a |-> "m1", team_b |-> "m2"]>>,
     <<[week |-> 3, team_a |-> "m3", team_b |-> "m1"]>>,
     <<[week |-> 3, team_a |-> "m1", team_b |-> "m2"], [week |-> 4, team_a |-> "m3", team_b |-> "m2"]>>}
ManagerTables == {<<>>, <<"m1", "m2">>, <<"m1", "m2", "m3">>, <<"m3", "m2", "m1">>}
PlayoffTeamsChoices == {1, 2, 4}

POInit ==
    /\ managers \in ManagerTables
    /\ players = {}
    /\ player_stats = {}
    /\ rosters = {}
    /\ max_week = MaxWeek
    /\ \E c \in [HistoryWeeks -> WeekChoices] : matchups = MatchupRows(c, 1, 2)
    /\ transactions = <<>>
    /\ draft_picks = <<>>
    /\ schedule \in ScheduleChoices
    /\ n_sims \in 1..MaxSims
    /\ playoff_teams \in PlayoffTeamsChoices
    /\ PoIdle
    /\ LEIdle
    /\ XWIdle
    /\ FaabIdle
    /\ DraftIdle
    /\ earlier = <<>>

PONext == Po_NoSchedule \/ Po_Start \/ Po_Raise \/ Po_Trial \/ Po_Return

SpecPlayoff == POInit /\ [][PONext]_vars

----
\* The engine as a whole: any of the input families, the five computations
\* taking their steps in any order.
Init == LEInit \/ XWInit \/ ROIInit \/ POInit

Next == LENext \/ XWNext \/ ROINext \/ PONext

Spec == Init /\ [][Next]_vars

----
\* The batch script: compute_metrics.py calls the four computations one after
\* the other.  A call that has returned, or that was aborted between two units
\* of work, may be followed by a new call of the same computation before the
\* script goes on; the derived table stays as the store holds it, the locals of
\* the call are gone.
MaxEarlier == 1    \* calls that ended before the current ones

LE_NewCall(how) ==
    /\ Len(earlier) < MaxEarlier
    /\ earlier' = Append(earlier, [fn |-> "lineup_efficiency", how |-> how, table |-> lineup_efficiency])
    /\ le_pc' = "init"
    /\ le_weeks' = <<>>
    /\ le_wi' = 1
    /\ le_mi' = 1
    /\ UNCHANGED <<inputs, lineup_efficiency, xw_vars, faab_vars, draft_vars, po_vars>>
LE_Again == le_pc = "done" /\ xw_pc = "init" /\ LE_NewCall("returned")
LE_Abort == le_pc = "loop" /\ LE_NewCall("aborted")

XW_NewCall(how) ==
    /\ Len(earlier) < MaxEarlier
    /\ earlier' = Append(earlier, [fn |-> "expected_wins", how |-> how, table |-> expected_wins])
    /\ xw_pc' = "init"
    /\ xw_mts' = <<>>
    /\ xw_totals' = [t \in TeamIds |-> <<>>]
    /\ xw_i' = 1
    /\ UNCHANGED <<inputs, expected_wins, xw_cum, le_vars, faab_vars, draft_vars, po_vars>>
XW_Again == xw_pc = "done" /\ faab_pc = "init" /\ XW_NewCall("returned")
XW_Abort == xw_pc = "loop" /\ XW_NewCall("aborted")

Faab_NewCall(how) ==
    /\ Len(earlier) < MaxEarlier
    /\ earlier' = Append(earlier, [fn |-> "faab_roi", how |-> how, table |-> faab_roi])
    /\ faab_pc' = "init"
    /\ faab_adds' = <<>>
    /\ faab_i' = 1
    /\ UNCHANGED <<inputs, faab_roi, le_vars, xw_vars, draft_vars, po_vars>>
Faab_Again == faab_pc = "done" /\ draft_pc = "init" /\ Faab_NewCall("returned")
Faab_Abort == faab_pc = "loop" /\ Faab_NewCall("aborted")

Draft_NewCall(how) ==
    /\ Len(earlier) < MaxEarlier
    /\ earlier' = Append(earlier, [fn |-> "draft_roi", how |-> how, table |-> draft_roi])
    /\ draft_pc' = "init"
    /\ draft_i' = 1
    /\ UNCHANGED <<inputs, draft_roi, le_vars, xw_vars, faab_vars, po_vars>>
Draft_Again == draft_pc = "done" /\ Draft_NewCall("returned")
Draft_Abort == draft_pc = "loop" /\ Draft_NewCall("aborted")

\* Inputs of the batch runs: a snapshot in which every computation has work.
\* Player 1 is on the roster of m1 over a range of weeks, started in the first;
\* player 2 sits on the bench of m2 in week 2.  m1 and m2 meet every week but
\* one at most.  Transactions and draft picks alternate between m2 and m1; the
\* odd transactions add a free agent who has no row in players or rosters.
\* The loader fills managers and players before the tables that refer to them.
FreeAgent == NPlayers + 1
SnapRanges == RangeChoices
SnapPlayers == {[player_id |-> p, eligible_positions |-> {"QB"}] : p \in PlayerIds}
SnapRosters(rg) ==
    ROIRosters(rg, "first")
    \cup {RosterRow(2, "m2", 2, "BN")}
SnapStats == ROIStats(7, 1) \cup {[week |-> 2, player_id |-> 2, total_points |-> 10]}
SnapSeason(gap) ==
    [w \in Weeks |->
        IF w = gap THEN <<>>
        ELSE IF w % 2 = 1
        THEN <<[team_a |-> "m1", team_b |-> "m2", score_a |-> <<90>>, score_b |-> <<110>>]>>
        ELSE <<[team_a |-> "m2", team_b |-> "m1", score_a |-> <<90>>, score_b |-> <<>>]>>]
SnapTx ==
    [i \in 1..MaxTx |->
        [tx_id |-> i, ts |-> i, type |-> "add",
         manager_id |-> IF i % 2 = 1 THEN "m2" ELSE "m1",
         player_id |-> IF i % 2 = 1 THEN FreeAgent ELSE 1,
         faab_spent |-> <<5>>]]
SnapPicks ==
    [i \in 1..MaxTx |->
        [manager_id |-> IF i % 2 = 1 THEN "m2" ELSE "m1",
         player_id |-> (((i - 1) \div 2) % NPlayers) + 1,
         cost |-> i + 2]]

SnapInit ==
    /\ managers = <<"m1", "m2">>
    /\ players = SnapPlayers
    /\ player_stats = SnapStats
    /\ \E rg \in SnapRanges : rosters = SnapRosters(rg)
    /\ \E gap \in 0..2 : matchups = MatchupRows(SnapSeason(gap), 1, MaxWeek)
    /\ max_week \in {MaxWeek - 1, MaxWeek}
    /\ transactions = SnapTx
    /\ draft_picks = SnapPicks
    /\ NoPlayoffRun
    /\ LEIdle
    /\ XWIdle
    /\ FaabIdle
    /\ DraftIdle
    /\ earlier = <<>>

\* the calls in the order of the script: a computation is called when the one
\* before it has returned
Script_XW_Begin == le_pc = "done" /\ XW_Begin
Script_Faab_Begin == le_pc = "done" /\ xw_pc = "done" /\ Faab_Begin
Script_Draft_Begin == le_pc = "done" /\ xw_pc = "done" /\ faab_pc = "done" /\ Draft_Begin

BatchNext ==
    \/ LE_Begin \/ LE_Skip \/ LE_Write \/ LE_Again \/ LE_Abort
    \/ Script_XW_Begin \/ XW_Row \/ XW_Again \/ XW_Abort
    \/ Script_Faab_Begin \/ Faab_Skip \/ Faab_Write \/ Faab_Again \/ Faab_Abort
    \/ Script_Draft_Begin \/ Draft_Skip \/ Draft_Write \/ Draft_Again \/ Draft_Abort

SpecBatch == SnapInit /\ [][BatchNext]_vars

\* the four computations started together, their store operations interleaved
SpecEngine == SnapInit /\ [][LENext \/ XWNext \/ ROINext]_vars

----
\* Claims on compute_lineup_efficiency.

\* the roster rows a record of lineup_efficiency was computed from
RowsOf(r) == RosterOf(r.week, r.manager_id)
PidsOf(r) == {x.player_id : x \in RowsOf(r)}

\* C1: every lineup_efficiency record has optimal_pts >= actual_pts, for any
\* roster rows, eligible_positions and points.
C1_OptimalAtLeastActual ==
    \A r \in lineup_efficiency : r.optimal_pts >= r.actual_pts

\* C2: every lineup_efficiency record has 0 <= efficiency <= 1, with efficiency
\* actual/optimal when optimal > 0 and 1 otherwise, and regret =
\* max(0, optimal - actual) >= 0.
C2_EfficiencyInUnitRange ==
    \A r \in lineup_efficiency :
        /\ r.efficiency = (IF r.optimal_pts > 0 THEN Quot(r.actual_pts, r.optimal_pts) ELSE RatOne)
        /\ r.regret = MaxOf({0, r.optimal_pts - r.actual_pts})
        /\ r.regret >= 0
        /\ RatLe(RatZero, r.efficiency)
        /\ RatLe(r.efficiency, RatOne)

\* The best total over the assignments of players to slot instances, slot by
\* slot: instance i stays empty or takes one eligible player not yet placed.
RECURSIVE BestFrom(_, _, _, _)
BestFrom(w, pids, i, used) ==
    IF i > Len(STARTING_SLOTS) THEN 0
    ELSE LET cands == {p \in pids \ used : STARTING_SLOTS[i] \in EligOf(p)}
         IN MaxOf({BestFrom(w, pids, i + 1, used)}
                  \cup {PtsOf(w, p) + BestFrom(w, pids, i + 1, used \cup {p}) : p \in cands})

\* one slot contested by two players of 10 and 14 points, the 10 started
ContestedScenario(r) ==
    /\ Cardinality(RowsOf(r)) = 2
    /\ \A x \in RowsOf(r) : EligOf(x.player_id) = {"QB"}
    /\ \E x, y \in RowsOf(r) :
          /\ x.started /\ PtsOf(r.week, x.player_id) = 10
          /\ ~y.started /\ PtsOf(r.week, y.player_id) = 14

\* C10: optimal_pts is the maximum, over the assignments of roster players to
\* slot instances (one player per instance, one instance per player, eligible
\* labels only), of the assigned players' points; in the contested scenario the
\* 14-point player is chosen and regret is 4.
C10_OptimalIsMaxMatching ==
    \A r \in lineup_efficiency :
        /\ r.optimal_pts = BestFrom(r.week, PidsOf(r), 1, {})
        /\ ContestedScenario(r) => r.optimal_pts = 14 /\ r.regret = 4

\* a record of the contested scenario has been written
C10_Witness == \E r \in lineup_efficiency : ContestedScenario(r)

----
\* Claims on compute_expected_wins.

\* the rows of xw_mts the second loop has been through
Processed == IF xw_pc = "init" THEN {} ELSE 1..(xw_i - 1)
XWRecord(w, mid) == CHOOSE r \in expected_wins : r.week = w /\ r.manager_id = mid

\* C3: the win probability of a matchup of week w is computed from scores of
\* weeks strictly before w only: the history used for a team holds neither its
\* week-w score nor a later one.  (Week 1 is left out: its probability is the
\* constant 0.5 and uses no history.)
C3_HistoryStrictlyBefore ==
    \A i \in Processed :
        LET row == xw_mts[i]
        IN row.week # 1 =>
              \A t \in {row.team_a, row.team_b} :
                  \A k \in 1..Len(Hist(xw_totals[t])) : Hist(xw_totals[t])[k].week < row.week

\* C4: for every processed matchup the p_win written for team_a and the p_win
\* written for team_b sum to exactly 1, and each lies in [0, 1].
C4_PairSumsToOne ==
    \A i \in Processed :
        LET ra == XWRecord(xw_mts[i].week, xw_mts[i].team_a)
            rb == XWRecord(xw_mts[i].week, xw_mts[i].team_b)
        IN /\ ra.p_win + rb.p_win = PScale
           /\ 0 <= ra.p_win /\ ra.p_win <= PScale
           /\ 0 <= rb.p_win /\ rb.p_win <= PScale

\* a processed matchup with a probability that is none of 0, 0.5, 1
C4_Witness ==
    \E i \in Processed :
        XWRecord(xw_mts[i].week, xw_mts[i].team_a).p_win \notin {0, Half, PScale}

\* C5: every expected_wins record of week 1 has p_win exactly 0.5, whatever the
\* scores and the other matchup rows.
C5_WeekOneNeutral ==
    \A r \in expected_wins : r.week = 1 => r.p_win = Half

\* week 1 has been written with unequal scores and later rows in the table
C5_Witness ==
    /\ \E r \in expected_wins : r.week = 1
    /\ Len(xw_mts) >= 3
    /\ xw_mts[1].week = 1 /\ FloatOr0(xw_mts[1].score_a) # FloatOr0(xw_mts[1].score_b)

\* C6: per manager, cum_xw is non-decreasing in the week over the records of a run.
C6_CumMonotone ==
    \A r1, r2 \in expected_wins :
        r1.manager_id = r2.manager_id /\ r1.week < r2.week => r1.cum_xw <= r2.cum_xw

\* a manager with records of two weeks, the later with the smaller p_win
C6_Witness ==
    \E r1, r2 \in expected_wins :
        /\ r1.manager_id = r2.manager_id /\ r1.week < r2.week
        /\ r2.p_win < r1.p_win /\ r1.cum_xw < r2.cum_xw

----
\* Claims on simulate_playoff_odds.

\* C8: with no schedule rows the simulator returns None, without raising and
\* without a probability set, whatever managers and matchups hold.
C8_NoScheduleReturnsNone ==
    schedule = <<>> /\ po_pc # "init" =>
        /\ po_pc = "done"
        /\ po_result = <<>>
        /\ po_k = 0

\* the call has returned with no schedule, with managers and history present
C8_Witness ==
    /\ schedule = <<>> /\ po_pc = "done"
    /\ managers # <<>> /\ matchups # <<>>
    /\ \E i \in MatchIdx : matchups[i].score_a = <<>>

PlayoffCount == SumSet(TeamIds, playoffs)
ReturnedPlayoffSum(odds) ==
    SumSet(1..Len(odds), [i \in 1..Len(odds) |-> odds[i].playoff[1]])

\* C9 as claimed: in every trial exactly playoff_teams teams are counted, so
\* after k trials the playoff counters sum to k * playoff_teams, and the
\* returned playoff probabilities sum to playoff_teams.
C9_CountIsPlayoffTeams ==
    /\ po_pc \in {"sim", "done"} => PlayoffCount = po_k * playoff_teams
    /\ po_pc = "done" /\ po_result # <<>> =>
          /\ \A i \in 1..Len(po_result[1]) : po_result[1][i].playoff[2] = n_sims
          /\ ReturnedPlayoffSum(po_result[1]) = playoff_teams * n_sims

\* the number of teams a trial counts
Counted == MinOf({playoff_teams, Len(managers)})

\* C9 as amended: in every trial exactly min(playoff_teams, number of managers)
\* teams are counted, so after k trials the playoff counters sum to
\* k * min(playoff_teams, number of managers), and the returned playoff
\* probabilities sum to min(playoff_teams, number of managers).
C9_CountIsMinOfPlayoffTeamsAndManagers ==
    /\ po_pc \in {"sim", "done"} => PlayoffCount = po_k * Counted
    /\ po_pc = "done" /\ po_result # <<>> =>
          /\ \A i \in 1..Len(po_result[1]) : po_result[1][i].playoff[2] = n_sims
          /\ ReturnedPlayoffSum(po_result[1]) = Counted * n_sims

\* probabilities were returned for three managers and two playoff places, and a
\* team made the playoffs in some trials only
C9_Witness ==
    /\ po_pc = "done" /\ po_result # <<>>
    /\ Len(managers) = 3 /\ playoff_teams = 2
    /\ \E t \in TeamIds : 0 < playoffs[t] /\ playoffs[t] < n_sims

----
\* Inputs of the identical-histories runs: m1 and m2 meet in weeks 1 to 3 with
\* the same score on both sides each week, meet again in week 4 with any
\* scores, and the weeks after week 4 hold any matchup or none.
LaterWeeks == 5..(MaxWeek + 1)

IdenticalRows(s, sc, later) ==
    [w \in 1..(MaxWeek + 1) |->
        IF w <= 3
        THEN <<[team_a |-> "m1", team_b |-> "m2", score_a |-> <<s[w]>>, score_b |-> <<s[w]>>]>>
        ELSE IF w = 4
        THEN <<[team_a |-> "m1", team_b |-> "m2", score_a |-> sc[1], score_b |-> sc[2]]>>
        ELSE later[w]]

XWIdenticalInit ==
    /\ managers = <<"m1", "m2", "m3">>
    /\ players = {}
    /\ player_stats = {}
    /\ rosters = {}
    /\ \E s \in [1..3 -> {90, 110}], sc \in ScoreChoices, later \in [LaterWeeks -> WeekChoices] :
          matchups = MatchupRows(IdenticalRows(s, sc, later), 1, MaxWeek + 1)
    /\ max_week \in {4, MaxWeek + 1}
    /\ transactions = <<>>
    /\ draft_picks = <<>>
    /\ NoPlayoffRun
    /\ LEIdle
    /\ XWIdle
    /\ FaabIdle
    /\ DraftIdle
    /\ earlier = <<>>

SpecXWIdentical == XWIdenticalInit /\ [][XWNext]_vars

\* the scores of team t in the matchups of the weeks before w, in week order
RECURSIVE PriorScores(_, _, _)
PriorScores(mts, t, w) ==
    IF mts = <<>> THEN <<>>
    ELSE PriorScores(SubSeq(mts, 1, Len(mts) - 1), t, w)
         \o (IF mts[Len(mts)].week < w
             THEN (IF mts[Len(mts)].team_a = t THEN <<FloatOr0(mts[Len(mts)].score_a)>> ELSE <<>>)
                  \o (IF mts[Len(mts)].team_b = t THEN <<FloatOr0(mts[Len(mts)].score_b)>> ELSE <<>>)
             ELSE <<>>)

\* C11: when the two teams of a matchup of week 4 have identical scoring
\* histories over weeks 1..3, p_win is 0.5 for both, whatever their week-4
\* scores and whatever matchups the later weeks hold; likewise for every week
\* after the first in which the two histories are identical (equal means).
C11_IdenticalHistoriesGiveHalf ==
    \A i \in Processed :
        LET row == xw_mts[i]
            pa == PriorScores(matchups, row.team_a, row.week)
            pb == PriorScores(matchups, row.team_b, row.week)
        IN row.week > 1 /\ pa # <<>> /\ pa = pb =>
              /\ XWRecord(row.week, row.team_a).p_win = Half
              /\ XWRecord(row.week, row.team_b).p_win = Half

----
\* Claims on the batch as a whole.

\* the derived table of a computation and the position of its current call
TableOf(fn) ==
    CASE fn = "lineup_efficiency" -> lineup_efficiency
      [] fn = "expected_wins" -> expected_wins
      [] fn = "faab_roi" -> faab_roi
      [] fn = "draft_roi" -> draft_roi
PcOf(fn) ==
    CASE fn = "lineup_efficiency" -> le_pc
      [] fn = "expected_wins" -> xw_pc
      [] fn = "faab_roi" -> faab_pc
      [] fn = "draft_roi" -> draft_pc

\* C12: once a call of compute_lineup_efficiency, compute_expected_wins,
\* compute_faab_roi or compute_draft_roi has returned, a second call on the same
\* input tables leaves the derived table exactly as the first call left it, at
\* every step and when it returns: same keys, same field values.
C12_SecondRunChangesNothing ==
    \A k \in 1..Len(earlier) :
        earlier[k].how = "returned" => TableOf(earlier[k].fn) = earlier[k].table

\* compute_expected_wins has returned a second time, with records of several
\* weeks in the table
C12_Witness ==
    /\ earlier # <<>>
    /\ earlier[1].fn = "expected_wins" /\ earlier[1].how = "returned"
    /\ xw_pc = "done"
    /\ \E r1, r2 \in expected_wins : r1.week < r2.week /\ r1.cum_xw < r2.cum_xw

\* C13: a run of compute_expected_wins or compute_lineup_efficiency with a
\* given max_week writes no record of a week after max_week, even when matchups
\* and rosters hold rows of later weeks.
C13_NoRecordAfterMaxWeek ==
    /\ \A r \in expected_wins : r.week <= max_week
    /\ \A r \in lineup_efficiency : r.week <= max_week

\* both computations have returned with records written, and both matchups and
\* rosters hold rows of a week after max_week
C13_Witness ==
    /\ xw_pc = "done" /\ expected_wins # {}
    /\ le_pc = "done" /\ lineup_efficiency # {}
    /\ \E i \in 1..Len(matchups) : matchups[i].week > max_week
    /\ \E r \in rosters : r.week > max_week /\ r.manager_id = "m1"

----
\* Further claims on compute_faab_roi.  The timestamp ts of a transaction is
\* kept as the week the event falls in.

\* the roster rows of the pair of tx of the weeks at or after the event
RowsAfterEvent(tx) == {r \in RosterRows(tx.manager_id, tx.player_id) : r.week >= tx.ts}

\* C14: for every FAAB add whose player is on the manager's roster at or after
\* the transaction event, start_week of the faab_roi record is the first such
\* week, and pts_all sums the points of those weeks only: roster weeks of the
\* pair that precede the transaction contribute nothing.
C14_WindowStartsAtEvent ==
    \A i \in FaabLast :
        LET tx == faab_adds[i]
            after == RowsAfterEvent(tx)
        IN after # {} =>
              \E r \in faab_roi :
                  /\ r.tx_id = tx.tx_id /\ r.player_id = tx.player_id
                  /\ r.start_week = MinOf({x.week : x \in after})
                  /\ r.start_week >= tx.ts
                  /\ r.pts_all = PtsOver(tx.player_id, {x.week : x \in after})

\* the roster weeks of the pair of record r that lie in its window
WindowWeeks(r) ==
    {x.week : x \in {y \in RosterRows(r.manager_id, r.player_id) :
                        r.start_week <= y.week /\ y.week <= r.end_week}}

\* C15: faab_roi holds one record per transaction identifier, and the records
\* of several adds of the same player by the same manager share no roster
\* week: the points of a week are attributed to one of them at most.
C15_NoWeekCountedTwice ==
    \A r1, r2 \in faab_roi :
        /\ r1.tx_id = r2.tx_id => r1 = r2
        /\ r1.tx_id # r2.tx_id /\ r1.manager_id = r2.manager_id /\ r1.player_id = r2.player_id =>
              WindowWeeks(r1) \cap WindowWeeks(r2) = {}

----
\* Claims on the units of work.

RangeOf(seq) == {seq[i] : i \in 1..Len(seq)}

\* C16: a unit of work without roster rows - a (week, manager) of
\* compute_lineup_efficiency, a FAAB add, a draft pick - gets no record, and
\* when the call returns every unit with roster rows has its record.
C16_MissingRowsSkipTheUnitOnly ==
    /\ le_pc = "done" =>
          \A w \in {x \in {r.week : r \in rosters} : x <= max_week}, mid \in RangeOf(managers) :
              (\E r \in lineup_efficiency : r.week = w /\ r.manager_id = mid)
                  <=> RosterOf(w, mid) # {}
    /\ faab_pc = "done" =>
          \A tx \in RangeOf(FaabAdds) :
              (\E r \in faab_roi : r.tx_id = tx.tx_id /\ r.player_id = tx.player_id)
                  <=> RosterRows(tx.manager_id, tx.player_id) # {}
    /\ draft_pc = "done" =>
          \A pick \in RangeOf(draft_picks) :
              (\E r \in draft_roi : r.manager_id = pick.manager_id /\ r.player_id = pick.player_id)
                  <=> RosterRows(pick.manager_id, pick.player_id) # {}

\* the three calls have returned, and in each a unit without roster rows came
\* before a unit that got its record
C16_Witness ==
    /\ le_pc = "done" /\ faab_pc = "done" /\ draft_pc = "done"
    /\ RosterOf(1, "m2") = {} /\ \E r \in lineup_efficiency : r.week = 2 /\ r.manager_id = "m2"
    /\ RosterRows(FaabAdds[1].manager_id, FaabAdds[1].player_id) = {} /\ faab_roi # {}
    /\ RosterRows(draft_picks[1].manager_id, draft_picks[1].player_id) = {} /\ draft_roi # {}

----
\* What one call of each computation, run alone from its first line to its
\* return, writes into an empty table: the loops of the source, unrolled over
\* the input tables.
LEOneRun ==
    {LERecord(u[1], u[2]) :
        u \in {v \in RangeOf(LEWeeks) \X RangeOf(managers) : RosterOf(v[1], v[2]) # {}}}

RECURSIVE XWRunFrom(_, _, _, _)
XWRunFrom(mts, i, cum, table) ==
    IF i > Len(mts) THEN table
    ELSE LET row == mts[i]
             pa == WinProb(row.week, Hist(TotalsOf(mts, row.team_a)),
                           Hist(TotalsOf(mts, row.team_b)),
                           FloatOr0(row.score_a), FloatOr0(row.score_b))
             pb == OtherSide(pa)
             cum1 == Accumulate(cum, row.team_a, pa)
             cum2 == Accumulate(cum1, row.team_b, pb)
             rec_a == [week |-> row.week, manager_id |-> row.team_a,
                       p_win |-> pa, cum_xw |-> cum1[row.team_a]]
             rec_b == [week |-> row.week, manager_id |-> row.team_b,
                       p_win |-> pb, cum_xw |-> cum2[row.team_b]]
         IN XWRunFrom(mts, i + 1, cum2, Upsert(Upsert(table, rec_a, XWKey), rec_b, XWKey))
XWOneRun == XWRunFrom(XWFilter(matchups), 1, [t \in TeamIds |-> 0], {})

RECURSIVE FaabRunFrom(_, _, _)
FaabRunFrom(adds, i, table) ==
    IF i > Len(adds) THEN table
    ELSE FaabRunFrom(adds, i + 1,
            IF RosterRows(adds[i].manager_id, adds[i].player_id) = {} THEN table
            ELSE Upsert(table, FaabRecord(adds[i]), FaabKey))
FaabOneRun == IF LastWeek = <<>> THEN {} ELSE FaabRunFrom(FaabAdds, 1, {})

RECURSIVE DraftRunFrom(_, _, _)
DraftRunFrom(picks, i, table) ==
    IF i > Len(picks) THEN table
    ELSE DraftRunFrom(picks, i + 1,
            IF RosterRows(picks[i].manager_id, picks[i].player_id) = {} THEN table
            ELSE Upsert(table, DraftRecord(picks[i]), DraftKey))
DraftOneRun == IF LastWeek = <<>> THEN {} ELSE DraftRunFrom(draft_picks, 1, {})

AllReturned == le_pc = "done" /\ xw_pc = "done" /\ faab_pc = "done" /\ draft_pc = "done"

\* a step changes the derived table of the computation that takes it only
OwnTableOnly ==
    /\ lineup_efficiency' # lineup_efficiency =>
          le_pc = "loop" /\ UNCHANGED <<expected_wins, faab_roi, draft_roi>>
    /\ expected_wins' # expected_wins =>
          xw_pc = "loop" /\ UNCHANGED <<lineup_efficiency, faab_roi, draft_roi>>
    /\ faab_roi' # faab_roi =>
          faab_pc = "loop" /\ UNCHANGED <<lineup_efficiency, expected_wins, draft_roi>>
    /\ draft_roi' # draft_roi =>
          draft_pc = "loop" /\ UNCHANGED <<lineup_efficiency, expected_wins, faab_roi>>

\* C17: with the store operations of the four computations interleaved in any
\* order, no step changes an input table, every step changes at most the
\* derived table of the computation that takes it, and when all four have
\* returned each derived table is what its computation writes when the batch
\* script runs them one after the other.
C17_InterleavingsAgree ==
    /\ [][UNCHANGED inputs /\ OwnTableOnly]_vars
    /\ [](AllReturned =>
            /\ lineup_efficiency = LEOneRun
            /\ expected_wins = XWOneRun
            /\ faab_roi = FaabOneRun
            /\ draft_roi = DraftOneRun)

\* the two ROI calls have returned while the lineup and expected-wins calls,
\* which the script makes first, are both in their loops with records written
C17_Witness ==
    /\ faab_pc = "done" /\ faab_roi # {}
    /\ draft_pc = "done" /\ draft_roi # {}
    /\ le_pc = "loop" /\ lineup_efficiency # {}
    /\ xw_pc = "loop" /\ expected_wins # {}

----
\* Further claims on simulate_playoff_odds.

\* the number of trials of the bag B that put t in the set named by field f
TimesIn(B, f, t) ==
    SumSet(BagToSet(B), [o \in BagToSet(B) |-> IF t \in o[f] THEN CopiesIn(o, B) ELSE 0])

\* C18: the standings every trial starts from are the actual ones, whatever
\* trials came before; the playoff and bye counters are the sums of the
\* per-trial contributions, a function of the bag of trial outcomes and not of
\* their order; and the counts of any two parts the trials are split into add
\* up to the counters, so the returned probabilities are the same.
C18_CountersAreSumsOverTrials ==
    po_pc \in {"sim", "done"} /\ schedule # <<>> =>
        /\ \A t \in TeamIds : po_wins[t] = Wins0(t) /\ po_pf[t] = PF0(t)
        /\ BagCardinality(po_log) = po_k
        /\ \A t \in TeamIds :
              /\ playoffs[t] = TimesIn(po_log, "top", t)
              /\ byes[t] = TimesIn(po_log, "bye", t)
              /\ \A part \in SubBag(po_log) :
                    /\ TimesIn(part, "top", t) + TimesIn(po_log (-) part, "top", t) = playoffs[t]
                    /\ TimesIn(part, "bye", t) + TimesIn(po_log (-) part, "bye", t) = byes[t]
        /\ po_pc = "done" /\ po_result # <<>> =>
              \A i \in 1..Len(po_result[1]) :
                  /\ po_result[1][i].playoff = Quot(TimesIn(po_log, "top", managers[i]), n_sims)
                  /\ po_result[1][i].bye = Quot(TimesIn(po_log, "bye", managers[i]), n_sims)

\* probabilities were returned after two trials with different outcomes, the
\* scheduled matchup changing the standings within each trial
C18_Witness ==
    /\ po_pc = "done" /\ po_result # <<>>
    /\ Cardinality(BagToSet(po_log)) >= 2
    /\ \E t \in TeamIds : 0 < playoffs[t] /\ playoffs[t] < n_sims

----
\* Claims on aborted calls.

\* C19: whatever calls were aborted between two units of work before, every
\* record in a derived table is the record a complete call on the same inputs
\* writes for its key, and when the call that follows an aborted one returns
\* the table is the table a complete call alone leaves.
C19_AbortedRunsLeaveFinalRecords ==
    /\ lineup_efficiency \subseteq LEOneRun
    /\ expected_wins \subseteq XWOneRun
    /\ faab_roi \subseteq FaabOneRun
    /\ draft_roi \subseteq DraftOneRun
    /\ le_pc = "done" => lineup_efficiency = LEOneRun
    /\ xw_pc = "done" => expected_wins = XWOneRun
    /\ faab_pc = "done" => faab_roi = FaabOneRun
    /\ draft_pc = "done" => draft_roi = DraftOneRun

\* compute_expected_wins was aborted with some of its records written, not
\* all, and the call made after it has returned
C19_Witness ==
    /\ earlier # <<>>
    /\ earlier[1].fn = "expected_wins" /\ earlier[1].how = "aborted"
    /\ earlier[1].table # {} /\ earlier[1].table # XWOneRun
    /\ xw_pc = "done"
    /\ \E r \in expected_wins : r.cum_xw > r.p_win

----
\* Claims on the keys of the derived records.

PlayerIdsInTable == {p.player_id : p \in players}

\* the rows of rosters, matchups and draft_picks refer to rows of managers and
\* players, as the loader writes them (managers and players first)
InputsResolve ==
    /\ \A r \in rosters : r.manager_id \in RangeOf(managers) /\ r.player_id \in PlayerIdsInTable
    /\ \A m \in RangeOf(matchups) : {m.team_a, m.team_b} \subseteq RangeOf(managers)
    /\ \A pick \in RangeOf(draft_picks) :
          pick.manager_id \in RangeOf(managers) /\ pick.player_id \in PlayerIdsInTable

----
\* Claims on the starts the lineup computation counts.

\* Inputs: every player is a quarterback with a stat line; he is off the roster
\* or placed in one slot of the week, and the loader derives his flag from it.
SlotChoices == {NoRow, <<"QB">>, <<"K">>, <<"BN">>, <<"IR">>}
StartsPts == {3, 10}

StartsInit ==
    /\ managers = <<"m1", "m2">>
    /\ players = SnapPlayers
    /\ \E w \in Weeks, mid \in ManagerIds, sl \in [PlayerIds -> SlotChoices],
          v \in [PlayerIds -> StartsPts] :
          /\ player_stats = {[week |-> w, player_id |-> p, total_points |-> v[p]] : p \in PlayerIds}
          /\ rosters = {RosterRow(w, mid, p, sl[p][1]) : p \in {q \in PlayerIds : sl[q] # NoRow}}
    /\ max_week \in {MaxWeek - 1, MaxWeek}
    /\ matchups = <<>>
    /\ transactions = <<>>
    /\ draft_picks = <<>>
    /\ NoPlayoffRun
    /\ LEIdle
    /\ XWIdle
    /\ FaabIdle
    /\ DraftIdle
    /\ earlier = <<>>

SpecStarts == StartsInit /\ [][LENext]_vars

\* the rows of a roster flagged started in a scoring slot
ScoringStarts(roster) == {r \in roster : r.started /\ r.slot \notin BENCH_SLOTS}

----
\* Claims on the confidence weighting of the early weeks.

\* games_x as the property counts them: the scores of team t in the weeks before w
PriorGames(t, w) == Len(PriorScores(matchups, t, w))

\* the historical estimate of a processed row, as the run computed it
RowEstimate(i) ==
    LET row == xw_mts[i]
    IN Historical(Moments(Hist(xw_totals[row.team_a]), FloatOr0(row.score_a)),
                  Moments(Hist(xw_totals[row.team_b]), FloatOr0(row.score_b)))

\* C22: for a matchup of week 2 or 3 the p_win of side A is
\* (1 - c) * 0.5 + c * h with c = min(min(games_a, games_b)/3, 1), games_x the
\* number of scores of team x in the weeks before the scored week; in week 2,
\* with one prior game each, p_win lies in [1/3, 2/3]; from week 4 on the
\* estimate is written unshrunk.
C22_EarlyWeeksShrunkByPriorGames ==
    \A i \in Processed :
        LET row == xw_mts[i]
            ga == PriorGames(row.team_a, row.week)
            gb == PriorGames(row.team_b, row.week)
            g == MinOf({ga, gb})
            p == XWRecord(row.week, row.team_a).p_win
        IN /\ row.week \in {2, 3} => p = (IF g < 1 THEN Half ELSE Blend(g, RowEstimate(i)))
           /\ row.week = 2 /\ ga = 1 /\ gb = 1 => PScale \div 3 <= p /\ p <= 2 * (PScale \div 3)
           /\ row.week >= 4 => p = RowEstimate(i)

----
\* Claims on the standings and the draws of simulate_playoff_odds.

\* a matchup is completed iff both scores are non-null and at least one is nonzero
Completed(m) ==
    IF m.score_a = <<>> \/ m.score_b = <<>> THEN FALSE
    ELSE m.score_a[1] # 0 \/ m.score_b[1] # 0
CompletedIdx == {i \in MatchIdx : Completed(matchups[i])}

\* the wins (in halves) and points of t over the completed matchups
CompletedWins(t) ==
    SumSet(CompletedIdx, [i \in CompletedIdx |->
        (IF matchups[i].team_a = t THEN WinHalves(matchups[i].score_a[1], matchups[i].score_b[1]) ELSE 0)
        + (IF matchups[i].team_b = t THEN WinHalves(matchups[i].score_b[1], matchups[i].score_a[1]) ELSE 0)])
CompletedPF(t) ==
    SumSet(CompletedIdx, [i \in CompletedIdx |->
        (IF matchups[i].team_a = t THEN matchups[i].score_a[1] ELSE 0)
        + (IF matchups[i].team_b = t THEN matchups[i].score_b[1] ELSE 0)])

\* C23: the wins and points-for every trial starts from come from completed
\* matchups only: a row with a null score, or with both scores zero, adds no
\* win, no half-win and no points to either team.
C23_StandingsFromCompletedOnly ==
    po_pc \in {"sim", "done"} /\ schedule # <<>> =>
        \A t \in TeamIds : po_wins[t] = CompletedWins(t) /\ po_pf[t] = CompletedPF(t)

\* the scores a trial may draw for team t at row i of the schedule
DrawnFor(i, t) ==
    {d[i][1] : d \in {e \in TrialDraws : schedule[i].team_a = t}}
    \cup {d[i][2] : d \in {e \in TrialDraws : schedule[i].team_b = t}}

\* C24: a scheduled team without a historical score draws the constant 100.0
\* in every simulated matchup, and the simulation ends without an error,
\* whichever team the managers table lists first.
C24_NoHistoryDrawsNeutral ==
    /\ po_pc # "raised"
    /\ po_pc = "sim" /\ po_k < n_sims /\ ~TrialRaises =>
          \A i \in SchedIdx : \A t \in {schedule[i].team_a, schedule[i].team_b} :
              ~HasDraws(t) => DrawnFor(i, t) = {100}

----
\* Claims on the weeks and the slots the ROI attributors count.

\* Inputs: in each week player 1 is on no roster, on the roster of m1 in one of
\* the slots the loader may record, or started by m2; his stat line of week w
\* holds w + 2 points.  m1 added him and drafted him, m2 drafted him too.
HolderChoices == {NoRow, <<"m1", "QB">>, <<"m1", "DEF">>, <<"m1", "BN">>, <<"m2", "QB">>}

SlotsInit ==
    /\ managers = <<"m1", "m2">>
    /\ players = SnapPlayers
    /\ matchups = <<>>
    /\ max_week = MaxWeek
    /\ \E h \in [Weeks -> HolderChoices] :
          rosters = {RosterRow(w, h[w][1], 1, h[w][2]) : w \in {x \in Weeks : h[x] # NoRow}}
    /\ player_stats = {[week |-> w, player_id |-> 1, total_points |-> w + 2] : w \in Weeks}
    /\ transactions = <<[tx_id |-> 1, ts |-> 1, type |-> "add", manager_id |-> "m1",
                         player_id |-> 1, faab_spent |-> <<5>>]>>
    /\ draft_picks = <<[manager_id |-> "m1", player_id |-> 1, cost |-> 3],
                       [manager_id |-> "m2", player_id |-> 1, cost |-> 4]>>
    /\ NoPlayoffRun
    /\ LEIdle
    /\ XWIdle
    /\ FaabIdle
    /\ DraftIdle
    /\ earlier = <<>>

SpecSlots == SlotsInit /\ [][ROINext]_vars

\* the weeks from..to in which the manager has a roster row of the player, and
\* those of them in which the row is started in a slot that is neither bench nor IR
RosteredWeeks(mid, pid, from, to) ==
    {r.week : r \in {x \in RosterRows(mid, pid) : from <= x.week /\ x.week <= to}}
ScoringWeeks(mid, pid, from, to) ==
    {r.week : r \in {x \in ScoringStarts(RosterRows(mid, pid)) : from <= x.week /\ x.week <= to}}

\* C25: in every ROI record pts_all is the sum of the player's total_points
\* over exactly the weeks of the window (start_week..end_week of a FAAB record,
\* the season of a draft record) in which the manager has a roster row of the
\* player, and pts_starting the sum over exactly those of these weeks in which
\* the row is started in a scoring slot; the weeks another manager rostered the
\* player count for neither.
C25_PointsOverRosteredAndStartedWeeks ==
    /\ \A r \in faab_roi :
          /\ r.pts_all =
                PtsOver(r.player_id, RosteredWeeks(r.manager_id, r.player_id, r.start_week, r.end_week))
          /\ r.pts_starting =
                PtsOver(r.player_id, ScoringWeeks(r.manager_id, r.player_id, r.start_week, r.end_week))
    /\ \A r \in draft_roi :
          /\ r.pts_all = PtsOver(r.player_id, RosteredWeeks(r.manager_id, r.player_id, 1, MaxWeek))
          /\ r.pts_starting = PtsOver(r.player_id, ScoringWeeks(r.manager_id, r.player_id, 1, MaxWeek))

----
\* Claims on the running total of expected wins.

\* the records stored for a manager up to week w
StoredUpTo(mid, w) == {r \in expected_wins : r.manager_id = mid /\ r.week <= w}

\* C26: for every manager and every week w with an expected_wins record,
\* cum_xw is the sum of the p_win stored for that manager over the weeks <= w;
\* the probabilities of the other managers have no part in it.
C26_CumIsSumOfOwnProbabilities ==
    \A r \in expected_wins :
        LET own == StoredUpTo(r.manager_id, r.week)
        IN r.cum_xw = SumSet(own, [x \in own |-> x.p_win])

\* a manager with records of two weeks and a shrunk or estimated probability,
\* while a third manager has a record of a week between them
C26_Witness ==
    \E r1, r2, o \in expected_wins :
        /\ r1.manager_id = r2.manager_id /\ r1.week < r2.week
        /\ o.manager_id \notin {r1.manager_id, "m2"} /\ r1.manager_id # "m2"
        /\ r1.week <= o.week /\ o.week <= r2.week
        /\ r2.p_win \notin {0, Half, PScale}
        /\ r2.cum_xw = r1.p_win + r2.p_win

\* team u ranks above team t in the trial o: more wins, or equal wins and more points-for
RanksAbove(o, u, t) == o.W[u] > o.W[t] \/ (o.W[u] = o.W[t] /\ o.PF[u] > o.PF[t])

\* S is the first n of the ranking of the trial o
IsFirstOfRanking(o, S, n) ==
    /\ S \subseteq RangeOf(managers)
    /\ Cardinality(S) = MinOf({n, Cardinality(RangeOf(managers))})
    /\ \A t \in S : \A u \in RangeOf(managers) \ S : ~RanksAbove(o, u, t)

\* the scheduled matchups of the trial o that t won, and those it tied
WonIn(o, t) ==
    {i \in SchedIdx : \/ schedule[i].team_a = t /\ o.draws[i][1] > o.draws[i][2]
                      \/ schedule[i].team_b = t /\ o.draws[i][2] > o.draws[i][1]}
TiedIn(o, t) ==
    {i \in SchedIdx : t \in {schedule[i].team_a, schedule[i].team_b}
                      /\ o.draws[i][1] = o.draws[i][2]}

\* C27: in each trial a simulated win adds 1 to the winner and a tie 0.5 to
\* each side (2 and 1 in halves); the teams counted for the playoffs are the
\* first playoff_teams of the ranking by (wins descending, points-for
\* descending), no team left out ranking above a team counted in; the bye set
\* is the first 2 of the same ranking.
C27_TrialRanksByWinsThenPoints ==
    \A o \in BagToSet(po_log) :
        /\ \A t \in TeamIds :
              o.W[t] = po_wins[t] + 2 * Cardinality(WonIn(o, t)) + Cardinality(TiedIn(o, t))
        /\ IsFirstOfRanking(o, o.top, playoff_teams)
        /\ IsFirstOfRanking(o, o.bye, 2)
        /\ playoff_teams >= 2 => o.bye \subseteq o.top

\* a trial with a simulated tie, in which a team is left out of the playoffs on
\* points-for alone
C27_Witness ==
    \E o \in BagToSet(po_log) :
        /\ \E t \in TeamIds : TiedIn(o, t) # {}
        /\ \E t \in o.top, u \in RangeOf(managers) \ o.top : o.W[u] = o.W[t] /\ o.PF[u] < o.PF[t]

----
\* Claims on what a week's record depends on.

\* the table a call with max_week = m leaves, on the matchups of this store
RunWithMaxWeek(m) ==
    XWRunFrom(SelectSeq(matchups, LAMBDA row : row.week <= m), 1, [t \in TeamIds |-> 0], {})

\* C28: the record of (week w, manager) does not depend on the data of later
\* weeks: for w <= m <= max_week the call with max_week = m and the call with
\* this max_week write the same p_win and cum_xw for week w.
C28_RecordIndependentOfLaterWeeks ==
    xw_pc = "done" =>
        \A m \in 1..max_week :
            \A r \in expected_wins : r.week <= m => r \in RunWithMaxWeek(m)

\* the weeks in which the manager started the player in a slot of the lineup optimizer
OptimizerSlotWeeks(mid, pid) ==
    {r.week : r \in {x \in RosterRows(mid, pid) :
                        x.started /\ x.slot \in RangeOf(STARTING_SLOTS)}}

\* C29: the ROI attributors and the lineup optimizer agree on the scoring slot
\* labels: a roster row started in any label of STARTING_SLOTS, the defense
\* slot included, counts toward pts_starting of the FAAB and the draft record.
C29_StartsInOptimizerSlotsCount ==
    /\ \A r \in faab_roi :
          r.pts_starting =
              PtsOver(r.player_id, {w \in OptimizerSlotWeeks(r.manager_id, r.player_id) :
                                        r.start_week <= w /\ w <= r.end_week})
    /\ \A r \in draft_roi :
          r.pts_starting = PtsOver(r.player_id, OptimizerSlotWeeks(r.manager_id, r.player_id))

\* C30: when probabilities are returned, the result has exactly one entry per
\* row of the managers table, and with playoff_teams >= 2 every entry has
\* 0 <= bye <= playoff <= 1: a team counted for a bye in a trial is counted for
\* the playoffs in that trial.
C30_OneEntryPerManagerByeWithinPlayoff ==
    po_pc = "done" /\ po_result # <<>> =>
        /\ Len(po_result[1]) = Len(managers)
        /\ \A i \in 1..Len(managers) :
              LET e == po_result[1][i]
              IN /\ e.manager_id = managers[i]
                 /\ playoff_teams >= 2 =>
                       /\ RatLe(RatZero, e.bye)
                       /\ RatLe(e.bye, e.playoff)
                       /\ RatLe(e.playoff, RatOne)
        /\ playoff_teams >= 2 => \A o \in BagToSet(po_log) : o.bye \subseteq o.top

\* probabilities were returned for three managers, one of them with a bye in
\* some trials only and in the playoffs in more trials than that
C30_Witness ==
    /\ po_pc = "done" /\ po_result # <<>>
    /\ Len(managers) = 3 /\ playoff_teams >= 2
    /\ \E i \in 1..Len(managers) :
          /\ 0 < po_result[1][i].bye[1]
          /\ po_result[1][i].bye[1] < po_result[1][i].playoff[1]

====
